---- MODULE Spec2Model ----
(***************************************************************************)
(* A model of effigy's schema builder: DbBuilder, _EntityConfiguration,    *)
(* PropertyConfiguration, RelationshipConfiguration and IndexConfiguration *)
(* (src/src/effigy/builder).  The configuration calls made inside setup()  *)
(* are the actions of the setup phase; DbBuilder._finalize is followed     *)
(* call by call through its three loops.                                   *)
(***************************************************************************)
EXTENDS Integers, Sequences, FiniteSets, TLC

(***************************************************************************)
(* Bounds of the model.                                                    *)
(***************************************************************************)
\* primary-key fields recorded over the whole builder
MaxPks == 2
\* primary-key fields recorded in the context of three keyed classes
MaxLinkPks == 3
\* property flags (required, autoincrement, max_len) a property call may bring
\* the builder to
MaxFlags == 1
\* relationships declared over the whole builder
MaxRels == 2
\* indexes declared over the whole builder
MaxIndexes == 1
\* fields named in one has_index call
MaxIndexColumns == 1

\* has_index: the most fields one call names in the specification of indexes
MaxIndexFields == 2
\* the argument given to max_len
MaxLenArg == 5

\* how many DbContext instances are constructed over the same classes
MaxContexts == 2

\* how many entity instances the code using a context creates
MaxInstances == 3

(***************************************************************************)
(* The entity classes handed to the builder.  A declared type is the       *)
(* record of what typing.get_origin / __args__ report of it: origin is     *)
(* "none" for a plain class (name is the class), "union" for T | None and  *)
(* T | U, "list" for list[T].                                              *)
(***************************************************************************)
Entities == {"Post", "Tag", "Reading", "Sample", "User", "Comment", "Link"}

\* the classes of the contexts modelled: one with many-to-many relationships,
\* one whose classes declare unions, one with a one-to-many relationship and
\* its many-to-one inverse
BlogEntities == {"Post", "Tag"}

ForumEntities == {"User", "Comment"}

\* the classes of a context in which a class names its table itself
LinkEntities == {"Post", "Tag", "Link"}

UnionEntities == {"Post", "Reading", "Sample"}

NoneType == "None"

Plain(n) == [origin |-> "none", name |-> n, args |-> <<>>]

UnionOf(a) == [origin |-> "union", name |-> "", args |-> a]

ListOf(n) == [origin |-> "list", name |-> "", args |-> <<n>>]

\* class Post: id: int | None; title: str | None; tags: list["Tag"]
\* class Tag:  id: int; posts: list[Post]; _rev: int
\* class Reading: id: int; value: int | str
\* class Sample:  id: int; value: int | str | None
\* class User:    id: int; comments: list["Comment"]
\* class Comment: id: int; user_id: int; user: User | None
\* class Link:    __tablename__ = "posts_tags"; id: int
__annotations__ ==
    [Post |-> << <<"id", UnionOf(<<"int", NoneType>>)>>,
                 <<"title", UnionOf(<<"str", NoneType>>)>>,
                 <<"tags", ListOf("Tag")>> >>,
     Tag  |-> << <<"id", Plain("int")>>,
                 <<"posts", ListOf("Post")>>,
                 <<"_rev", Plain("int")>> >>,
     Reading |-> << <<"id", Plain("int")>>,
                    <<"value", UnionOf(<<"int", "str">>)>> >>,
     Sample  |-> << <<"id", Plain("int")>>,
                    <<"value", UnionOf(<<"int", "str", NoneType>>)>> >>,
     User    |-> << <<"id", Plain("int")>>,
                    <<"comments", ListOf("Comment")>> >>,
     Comment |-> << <<"id", Plain("int")>>,
                    <<"user_id", Plain("int")>>,
                    <<"user", UnionOf(<<"User", NoneType>>)>> >>,
     Link    |-> << <<"id", Plain("int")>> >>]

\* the field names for which name.startswith("_") holds
UnderscoreNames == {"_rev"}

startswith_underscore(name) == name \in UnderscoreNames

\* the names the @entity decorator gives: _pluralize(c.__name__.lower()), but
\* for a class that sets __tablename__ itself
__tablename__ ==
    [Post |-> "posts", Tag |-> "tags", Reading |-> "readings", Sample |-> "samples",
     User |-> "users", Comment |-> "comments", Link |-> "posts_tags"]

\* the code points of the table names, for Python's string order
CodePoints ==
    [posts |-> <<112, 111, 115, 116, 115>>,
     tags  |-> <<116, 97, 103, 115>>,
     readings |-> <<114, 101, 97, 100, 105, 110, 103, 115>>,
     samples  |-> <<115, 97, 109, 112, 108, 101, 115>>,
     users    |-> <<117, 115, 101, 114, 115>>,
     comments |-> <<99, 111, 109, 109, 101, 110, 116, 115>>,
     posts_tags |-> <<112, 111, 115, 116, 115, 95, 116, 97, 103, 115>>]

FieldNames(e) == {__annotations__[e][i][1] : i \in 1..Len(__annotations__[e])}

\* the annotations of a class, as _EntityProxy reads them: a class that is
\* no entity (int, str) has none
AnnotatedNames(t) == IF t \in Entities THEN FieldNames(t) ELSE {}

\* the fields a navigation lambda can name: _EntityProxy.__getattribute__ hands
\* a name that starts with "_" to object.__getattribute__, which knows no field
Navigable(e) == {f \in FieldNames(e) : ~startswith_underscore(f)}

FieldType(e, f) ==
    LET i == CHOOSE j \in 1..Len(__annotations__[e]) : __annotations__[e][j][1] = f
    IN  __annotations__[e][i][2]

(***************************************************************************)
(* State.                                                                  *)
(***************************************************************************)
VARIABLES
    entity_configs,   \* DbBuilder._entity_configs: the registered types, in insertion order
    config_id,        \* the identity of the configuration instance stored for each type (0: none)
    configs_created,  \* how many _EntityConfiguration instances were ever constructed
    _pks,             \* _EntityConfiguration._pks, per type
    _properties,      \* _EntityConfiguration._properties, per type: field name -> PropertyConfiguration
    _relationships,   \* _EntityConfiguration._relationships, per type
    _indexes,         \* _EntityConfiguration._indexes, per type
    __table__,        \* the table attached to each entity class: its key in metadata ("": None)
    __mapper__,       \* per type: the context whose table its mapper maps (0: not mapped)
    metadata,         \* MetaData.tables: table name -> table
    attrs,            \* the relationship descriptors set on each entity class, by attribute name
    applied,          \* per type: how many of its relationships _apply() has returned for
    pc,               \* "setup", then the phase of _finalize, then "done" / "failed" / "aborted"
    cursor,           \* the position of the running loop of _finalize in entity_configs
    log,              \* the calls _finalize has made so far, in order
    err,              \* the exception that ended setup or _finalize (kind "": none)
    context,          \* the number of the DbContext under construction
    _session,         \* DbContext._session: whether the context has created its session
    closed,           \* no call was made on the session since its last close()
    state,            \* per entity instance: its state in the session
    transaction,      \* the instances whose INSERT the open transaction holds uncommitted
    database,         \* the instances whose row is committed
    block,            \* "in": the code using the context is inside its with-block
    added,            \* the instances that were new when the running block added them
    single_result,    \* the outcome of the single() call the step made (NoResult: it made none)
    change_count,     \* <<n>>: the step was a save_changes() call of the block that returned n
    exc_type,         \* the exc_type the last __exit__ call was given ("": None)
    raised            \* the exception that left the last with-block ("": none)

vars == <<entity_configs, config_id, configs_created, _pks, _properties, _relationships,
          _indexes, __table__, __mapper__, metadata, attrs, applied, pc, cursor, log, err,
          context, _session, closed, state, transaction, database, block, added,
          single_result, change_count, exc_type, raised>>

builderVars == <<entity_configs, config_id, configs_created, context>>

sessionVars ==
    <<_session, closed, state, transaction, database, block, added, single_result,
      change_count, exc_type, raised>>

classVars == <<__table__, __mapper__, metadata, attrs, applied>>

runVars == <<pc, cursor, log, err>>

Instances == 1..MaxInstances

NoTable == [name |-> "", columns |-> <<>>, indexes |-> <<>>]

NoResult == [count |-> 0, raised |-> "", msg |-> "", row |-> 0]

NoError == [kind |-> "", entity |-> "", field |-> "", msg |-> ""]

Error(k, e, f, m) == [kind |-> k, entity |-> e, field |-> f, msg |-> m]

\* PropertyConfiguration.__init__; _max_length is <<>> for None, <<n>> for n
PropertyConfiguration ==
    [_required |-> FALSE, _autoincrement |-> FALSE, _max_length |-> <<>>]

\* RelationshipConfiguration.__init__; "" stands for None
RelationshipConfiguration(navname, type) ==
    [_navigation_name |-> navname, _relationship_type |-> type, _fk_prop |-> "",
     _inverse_prop |-> "", _related_entity |-> "", _back_populates |-> ""]

IndexConfiguration(columns, unique, name) ==
    [_columns |-> columns, _unique |-> unique, _name |-> name]

Init ==
    /\ entity_configs = <<>>
    /\ config_id = [e \in Entities |-> 0]
    /\ configs_created = 0
    /\ _pks = [e \in Entities |-> <<>>]
    /\ _properties = [e \in Entities |-> <<>>]
    /\ _relationships = [e \in Entities |-> <<>>]
    /\ _indexes = [e \in Entities |-> <<>>]
    /\ __table__ = [e \in Entities |-> ""]
    /\ __mapper__ = [e \in Entities |-> 0]
    /\ metadata = <<>>
    /\ attrs = [e \in Entities |-> <<>>]
    /\ applied = [e \in Entities |-> 0]
    /\ pc = "setup"
    /\ cursor = 0
    /\ log = <<>>
    /\ err = NoError
    /\ context = 1
    /\ _session = FALSE
    /\ closed = TRUE
    /\ state = [n \in Instances |-> "transient"]
    /\ transaction = {}
    /\ database = {}
    /\ block = "out"
    /\ added = {}
    /\ single_result = NoResult
    /\ change_count = <<>>
    /\ exc_type = ""
    /\ raised = ""

(***************************************************************************)
(* Helpers over sequences.                                                 *)
(***************************************************************************)
Range(s) == {s[i] : i \in 1..Len(s)}

RECURSIVE SumLen(_, _)
SumLen(f, S) ==
    IF S = {} THEN 0
    ELSE LET x == CHOOSE y \in S : TRUE IN Len(f[x]) + SumLen(f, S \ {x})

Registered == Range(entity_configs)

TotalPks(pks) == SumLen(pks, Entities)

FlagsOf(p) ==
    (IF p._required THEN 1 ELSE 0) + (IF p._autoincrement THEN 1 ELSE 0)
        + Len(p._max_length)

RECURSIVE SumFlags(_, _)
SumFlags(props, S) ==
    IF S = {} THEN 0
    ELSE LET f == CHOOSE g \in S : TRUE IN FlagsOf(props[f]) + SumFlags(props, S \ {f})

RECURSIVE NumFlags(_, _)
NumFlags(properties, S) ==
    IF S = {} THEN 0
    ELSE LET e == CHOOSE x \in S : TRUE
         IN  SumFlags(properties[e], DOMAIN properties[e]) + NumFlags(properties, S \ {e})

(***************************************************************************)
(* DbBuilder.entity: lookup-or-create keyed by the entity type.  The       *)
(* result is the builder's state after the call; config_id[entity_type] is *)
(* the instance the call returns.                                          *)
(***************************************************************************)
Builder ==
    [entity_configs |-> entity_configs, config_id |-> config_id,
     configs_created |-> configs_created, _pks |-> _pks, _properties |-> _properties,
     _relationships |-> _relationships, _indexes |-> _indexes]

\* self._entity_configs[entity_type] = _EntityConfiguration(entity_type, self)
NewConfiguration(entity_type) ==
    [entity_configs |->
        IF entity_type \in Registered THEN entity_configs
        ELSE Append(entity_configs, entity_type),
     config_id |-> [config_id EXCEPT ![entity_type] = configs_created + 1],
     configs_created |-> configs_created + 1,
     _pks |-> [_pks EXCEPT ![entity_type] = <<>>],
     _properties |-> [_properties EXCEPT ![entity_type] = <<>>],
     _relationships |-> [_relationships EXCEPT ![entity_type] = <<>>],
     _indexes |-> [_indexes EXCEPT ![entity_type] = <<>>]]

entity_always_new(entity_type) == NewConfiguration(entity_type)

entity(entity_type) ==
    IF entity_type \notin Registered THEN NewConfiguration(entity_type) ELSE Builder

\* the variables of the builder after a call that left it as b, but for b's
\* own fields given in the action
SetBuilder(b) ==
    /\ entity_configs' = b.entity_configs
    /\ config_id' = b.config_id
    /\ configs_created' = b.configs_created
    /\ context' = context
    /\ UNCHANGED sessionVars

\* a configuration call that raises: the exception leaves setup()
Abort(e) ==
    /\ pc' = "aborted"
    /\ err' = e
    /\ UNCHANGED <<cursor, log>>

Continue == UNCHANGED runVars

(***************************************************************************)
(* _EntityConfiguration.property: get-or-create of the field's             *)
(* PropertyConfiguration.                                                  *)
(***************************************************************************)
property(props, prop_name) ==
    IF prop_name \in DOMAIN props THEN props
    ELSE props @@ (prop_name :> PropertyConfiguration)

\* the loop of has_key over its navigations, from the i-th on
RECURSIVE has_key_loop(_, _, _, _)
has_key_loop(navigations, autoinc, i, st) ==
    IF i > Len(navigations) THEN st
    ELSE LET keyname == navigations[i]
             props == property(st.props, keyname)
         IN  has_key_loop(navigations, autoinc, i + 1,
                 [pks |-> Append(st.pks, keyname),
                  props |-> IF autoinc
                            THEN [props EXCEPT ![keyname]._autoincrement = TRUE]
                            ELSE props])

AutoincrementCompositeMsg == "Autoincrement only supported on single-column primary keys"

has_key_rejects_nothing(navigations, autoinc) == FALSE

\* the check of has_key that refuses autoincrement on a composite key
has_key_rejects(navigations, autoinc) ==
    autoinc /\ Len(navigations) > 1

KeyNavs(e) == UNION {[1..n -> Navigable(e)] : n \in 0..MaxPks}

\* builder.entity(e).has_key(*navigations, autoincrement=autoinc), while the
\* builder holds at most bound primary-key fields
HasKeyWithin(e, navigations, autoinc, bound) ==
    /\ pc = "setup"
    /\ LET b == entity(e)
           st == has_key_loop(navigations, autoinc, 1,
                              [pks |-> b._pks[e], props |-> b._properties[e]])
       IN  /\ SetBuilder(b)
           /\ _relationships' = b._relationships
           /\ _indexes' = b._indexes
           /\ IF Len(navigations) = 0
              THEN /\ Abort(Error("ValueError", e, "", "Must specify at least one primary key"))
                   /\ _pks' = b._pks
                   /\ _properties' = b._properties
              ELSE IF has_key_rejects(navigations, autoinc)
              THEN /\ Abort(Error("ValueError", e, "", AutoincrementCompositeMsg))
                   /\ _pks' = b._pks
                   /\ _properties' = b._properties
              ELSE /\ TotalPks(b._pks) + Len(navigations) <= bound
                   /\ Continue
                   /\ _pks' = [b._pks EXCEPT ![e] = st.pks]
                   /\ _properties' = [b._properties EXCEPT ![e] = st.props]
    /\ UNCHANGED classVars

HasKey(e, navigations, autoinc) == HasKeyWithin(e, navigations, autoinc, MaxPks)

required(p) == [p EXCEPT !._required = TRUE]

autoincrement(p) == [p EXCEPT !._autoincrement = TRUE]

max_len(p) == [p EXCEPT !._max_length = <<MaxLenArg>>]

\* the PropertyConfiguration method a call names
Configure(p, call) ==
    CASE call = "required" -> required(p)
      [] call = "autoincrement" -> autoincrement(p)
      [] call = "max_len" -> max_len(p)

\* builder.entity(e).property(f) followed by one call on the PropertyConfiguration
SetProperty(e, f, call) ==
    /\ pc = "setup"
    /\ LET b == entity(e)
           props == property(b._properties[e], f)
           after == [b._properties EXCEPT ![e] = [props EXCEPT ![f] = Configure(props[f], call)]]
       IN  /\ NumFlags(after, Entities) <= MaxFlags
           /\ SetBuilder(b)
           /\ _pks' = b._pks
           /\ _relationships' = b._relationships
           /\ _indexes' = b._indexes
           /\ _properties' = after
    /\ Continue
    /\ UNCHANGED classVars

Required(e, f) == SetProperty(e, f, "required")

Autoincrement(e, f) == SetProperty(e, f, "autoincrement")

MaxLen(e, f) == SetProperty(e, f, "max_len")

\* builder.entity(e) alone
Entity(e) ==
    /\ pc = "setup"
    /\ LET b == entity(e)
       IN  /\ SetBuilder(b)
           /\ _pks' = b._pks
           /\ _properties' = b._properties
           /\ _relationships' = b._relationships
           /\ _indexes' = b._indexes
    /\ Continue
    /\ UNCHANGED classVars

(***************************************************************************)
(* _EntityConfiguration._create_table.                                     *)
(***************************************************************************)
\* _TYPE_MAP.get(nonnull_type, String)
_TYPE_MAP(t) ==
    CASE t = "int" -> "Integer"
      [] t = "str" -> "String"
      [] t = "bool" -> "Boolean"
      [] t = "float" -> "Float"
      [] OTHER -> "String"

\* hasattr(field_type, "__args__") and len(field_type.__args__) > 1
HasSeveralArgs(t) == Len(t.args) > 1

non_none_args(t) == SelectSeq(t.args, LAMBDA a : a # NoneType)

UnionIsOptionalAnyNone(t) == NoneType \in Range(t.args)

\* the branch taken for a union: Optional[T] is the one accepted form
UnionIsOptional(t) == NoneType \in Range(t.args) /\ Len(non_none_args(t)) <= 1

\* is_nullable and nonnull_type of a field that passed the union check
IsNullable(t) ==
    (t.origin = "union" \/ HasSeveralArgs(t)) /\ NoneType \in Range(t.args)

NonNullType(t) ==
    IF (t.origin = "union" \/ HasSeveralArgs(t)) /\ Len(non_none_args(t)) > 0
    THEN non_none_args(t)[1]
    ELSE t.name

_validate_autoincrement_any_optional(field_type, autoinc) ==
    \/ ~autoinc
    \/ field_type.origin = "union" /\ NoneType \in Range(field_type.args)

\* _validate_autoincrement: TRUE when it returns, FALSE when it raises
_validate_autoincrement(field_type, autoinc) ==
    \/ ~autoinc
    \/ /\ field_type.origin = "union"
       /\ NoneType \in Range(field_type.args)
       /\ "int" \in Range(field_type.args)

NullableIgnoringType(is_nullable, prop_config) == ~prop_config._required

\* nullable, with a property configuration and without one
NullableConfigured(is_nullable, prop_config) == is_nullable /\ ~prop_config._required

NullableDefault(is_nullable, is_primary) == is_nullable /\ ~is_primary

IsPrimaryFirstKeyOnly(field_name, pks) == pks # <<>> /\ field_name = pks[1]

\* field_name in self._pks
IsPrimary(field_name, pks) == field_name \in Range(pks)

MaxLenAllowedAnywhere(nonnull_type) == TRUE

\* the check of max_len: TRUE when the field may carry a length
MaxLenAllowed(nonnull_type) == nonnull_type = "str"

Column(name, type, length, primary_key, nullable, autoinc, fk) ==
    [name |-> name, type |-> type, length |-> length, primary_key |-> primary_key,
     nullable |-> nullable, autoincrement |-> autoinc, fk |-> fk]

MaxLenMsg == "max_len() can only be used on string (str) fields, not "

AutoincrementTypeMsg == "Autoincrementing field must be defined as int | None"

NoPrimaryKeyMsg == "must have at least one primary key"

RECURSIVE UnionStr(_)
\* str(field_type) of a union: its arguments joined by " | "
UnionStr(args) ==
    IF Len(args) = 1 THEN args[1] ELSE args[1] \o " | " \o UnionStr(Tail(args))

UnionMsg(field_type) == "has unsupported union type: " \o UnionStr(field_type.args)

IsSkippedPrivateOnly(field_name, field_type) == startswith_underscore(field_name)

\* a field that yields no column: private, or list / dict / set
IsSkipped(field_name, field_type) ==
    \/ startswith_underscore(field_name)
    \/ field_type.origin \in {"list", "dict", "set"}
    \/ field_type.origin = "NoneType"

\* one pass of the loop over type_hints.items(): the exception raised for the
\* field (NoError: none) and the column built
ColumnFor(e, field_name, field_type, pks, props) ==
    LET unionlike == field_type.origin = "union" \/ HasSeveralArgs(field_type)
        nonnull_type == NonNullType(field_type)
        is_nullable == IsNullable(field_type)
        is_primary == IsPrimary(field_name, pks)
        configured == field_name \in DOMAIN props
        nullable == IF configured THEN NullableConfigured(is_nullable, props[field_name])
                    ELSE NullableDefault(is_nullable, is_primary)
        autoinc == IF configured THEN props[field_name]._autoincrement ELSE FALSE
        max_length == IF configured THEN props[field_name]._max_length ELSE <<>>
        e1 == IF unionlike /\ ~UnionIsOptional(field_type)
              THEN Error("TypeError", e, field_name, UnionMsg(field_type))
              ELSE IF max_length # <<>> /\ ~MaxLenAllowed(nonnull_type)
              THEN Error("ValueError", e, field_name,
                         MaxLenMsg \o nonnull_type)
              ELSE IF ~_validate_autoincrement(field_type, autoinc)
              THEN Error("TypeError", e, field_name,
                         AutoincrementTypeMsg)
              ELSE NoError
    IN  [err |-> e1,
         col |-> Column(field_name,
                        IF max_length # <<>> THEN "String" ELSE _TYPE_MAP(nonnull_type),
                        max_length, is_primary, nullable,
                        IF autoinc THEN "True" ELSE "auto", "")]

\* the loop over the fields from the i-th on; it stops at the first exception
RECURSIVE BuildColumns(_, _, _, _, _)
BuildColumns(e, i, pks, props, columns) ==
    IF i > Len(__annotations__[e]) THEN [err |-> NoError, columns |-> columns]
    ELSE LET field_name == __annotations__[e][i][1]
             field_type == __annotations__[e][i][2]
         IN  IF IsSkipped(field_name, field_type)
             THEN BuildColumns(e, i + 1, pks, props, columns)
             ELSE LET r == ColumnFor(e, field_name, field_type, pks, props)
                  IN  IF r.err # NoError THEN [err |-> r.err, columns |-> columns]
                      ELSE BuildColumns(e, i + 1, pks, props, Append(columns, r.col))

PrimaryKeyColumns(table) == SelectSeq(table.columns, LAMBDA c : c.primary_key)

HasPrimaryKeyUnchecked(pks) == TRUE

\* the check that precedes the columns: TRUE when the entity has a key
HasPrimaryKey(pks) == pks # <<>>

has__mapper__never(e) == FALSE

\* hasattr(self._entity_type, "__mapper__")
has__mapper__(e) == __mapper__[e] # 0

\* mapper_reg.map_imperatively(entity, table): the mapper refuses a class that
\* has a mapper already, and a table
\* of which no column is a primary key
MapperAccepts(table) == PrimaryKeyColumns(table) # <<>>

\* _create_table: the exception it raises (NoError: none), the table it attached
\* (name "": none) and whether it registered the class with the mapping registry
_create_table(e) ==
    LET table_name == __tablename__[e]
        built == BuildColumns(e, 1, _pks[e], _properties[e], <<>>)
        table == [name |-> table_name, columns |-> built.columns, indexes |-> <<>>]
    IN  IF table_name = ""
        THEN [err |-> Error("ValueError", e, "", "no table name configured"),
              table |-> NoTable, mapped |-> FALSE]
        ELSE IF ~HasPrimaryKey(_pks[e])
        THEN [err |-> Error("ValueError", e, "", NoPrimaryKeyMsg),
              table |-> NoTable, mapped |-> FALSE]
        ELSE IF built.err # NoError
        THEN [err |-> built.err, table |-> NoTable, mapped |-> FALSE]
        ELSE IF has__mapper__(e)
        THEN [err |-> NoError, table |-> table, mapped |-> FALSE]
        ELSE IF __mapper__[e] # 0
        THEN [err |-> Error("ArgumentError", e, "",
                            "already has a primary mapper defined"),
              table |-> table, mapped |-> FALSE]
        ELSE IF ~MapperAccepts(table)
        THEN [err |-> Error("ArgumentError", e, "",
                            "could not assemble any primary key columns"),
              table |-> table, mapped |-> FALSE]
        ELSE [err |-> NoError, table |-> table, mapped |-> TRUE]

(***************************************************************************)
(* IndexConfiguration.create_index and _EntityConfiguration._create_indexes *)
(***************************************************************************)
RECURSIVE Join(_, _)
\* sep.join(names)
Join(sep, names) ==
    IF names = <<>> THEN ""
    ELSE IF Len(names) = 1 THEN names[1]
    ELSE names[1] \o sep \o Join(sep, Tail(names))

ColumnNames(table) == {table.columns[i].name : i \in 1..Len(table.columns)}

index_name_never_unique(index_config, table_name) ==
    IF index_config._name # "" THEN index_config._name
    ELSE "ix_" \o table_name \o "_" \o Join("_", index_config._columns)

index_name(index_config, table_name) ==
    IF index_config._name # "" THEN index_config._name
    ELSE (IF index_config._unique THEN "uq" ELSE "ix") \o "_" \o table_name \o "_"
             \o Join("_", index_config._columns)

\* create_index: table.c[col_name] raises KeyError for a name that is no column
create_index(index_config, table, table_name) ==
    IF \E i \in 1..Len(index_config._columns) :
           index_config._columns[i] \notin ColumnNames(table)
    THEN [err |-> Error("KeyError", "", "", "no such column"), index |-> <<>>]
    ELSE [err |-> NoError,
          index |-> <<[name |-> index_name(index_config, table_name),
                       columns |-> index_config._columns,
                       unique |-> index_config._unique]>>]

\* the loop of _create_indexes from the i-th index on: the exception that stopped
\* it and the table with the indexes created so far
RECURSIVE IndexLoop(_, _, _)
IndexLoop(e, i, table) ==
    IF i > Len(_indexes[e]) THEN [err |-> NoError, table |-> table]
    ELSE LET r == create_index(_indexes[e][i], table, __tablename__[e])
         IN  IF r.err # NoError
             THEN [err |-> [r.err EXCEPT !.entity = e], table |-> table]
             ELSE IndexLoop(e, i + 1, [table EXCEPT !.indexes = @ \o r.index])

_create_indexes(e) ==
    IF __table__[e] = ""
    THEN [err |-> Error("ValueError", e, "", "has no table configured"), table |-> NoTable]
    ELSE IndexLoop(e, 1, metadata[__table__[e]])

(***************************************************************************)
(* RelationshipConfiguration: resolution, validation, association table,   *)
(* _apply.                                                                 *)
(***************************************************************************)
\* the annotations whose type argument is written as a string
ForwardReferences == {<<"Post", "tags">>, <<"User", "comments">>}

\* getattr(sys.modules[entity.__module__], name, None); "" stands for None
ModuleLookup(name) == IF name \in Entities THEN name ELSE ""

\* _determine_related_entity: the related type, or the exception
_determine_related_entity(e, navname) ==
    LET navtype == FieldType(e, navname)
    IN  IF navname \notin FieldNames(e)
        THEN [err |-> Error("ValueError", e, navname, "Navigation property not found"),
              related |-> ""]
        ELSE IF navtype.args # <<>>
        THEN IF <<e, navname>> \in ForwardReferences
             THEN IF ModuleLookup(navtype.args[1]) = ""
                  THEN [err |-> Error("ValueError", e, navname,
                                      "Cannot resolve forward reference"),
                        related |-> ""]
                  ELSE [err |-> NoError, related |-> ModuleLookup(navtype.args[1])]
             ELSE [err |-> NoError, related |-> navtype.args[1]]
        ELSE [err |-> NoError, related |-> navtype.name]

\* Python's order of two strings, by code point
RECURSIVE SeqLess(_, _)
SeqLess(a, b) ==
    IF b = <<>> THEN FALSE
    ELSE IF a = <<>> THEN TRUE
    ELSE IF a[1] # b[1] THEN a[1] < b[1]
    ELSE SeqLess(Tail(a), Tail(b))

StrLess(a, b) == SeqLess(CodePoints[a], CodePoints[b])

\* sorted([a, b])
sorted_as_given(a, b) == <<a, b>>

sorted(a, b) == IF StrLess(b, a) THEN <<b, a>> ELSE <<a, b>>

association_table_name(current_table_name, related_table_name) ==
    LET table_names == sorted(current_table_name, related_table_name)
    IN  table_names[1] \o "_" \o table_names[2]

AssociationColumnsOneKey(current_table, related_table) ==
    LET current_pk == PrimaryKeyColumns(current_table)[1]
    IN  << Column(current_table.name \o "_" \o current_pk.name, current_pk.type,
                  current_pk.length, TRUE, FALSE, "auto",
                  current_table.name \o "." \o current_pk.name),
           Column(related_table.name \o "_" \o current_pk.name, current_pk.type,
                  current_pk.length, TRUE, FALSE, "auto",
                  related_table.name \o "." \o current_pk.name) >>

\* the two columns of a new association table
AssociationColumns(current_table, related_table) ==
    LET current_pk == PrimaryKeyColumns(current_table)[1]
        related_pk == PrimaryKeyColumns(related_table)[1]
    IN  << Column(current_table.name \o "_" \o current_pk.name, current_pk.type,
                  current_pk.length, TRUE, FALSE, "auto",
                  current_table.name \o "." \o current_pk.name),
           Column(related_table.name \o "_" \o related_pk.name, related_pk.type,
                  related_pk.length, TRUE, FALSE, "auto",
                  related_table.name \o "." \o related_pk.name) >>

\* _create_association_table, on the schema registry md: the exception, the
\* registry after the call and the name of the table returned
_create_association_table(e, related, md) ==
    LET name == association_table_name(__tablename__[e], __tablename__[related])
        current_table == md[__table__[e]]
        related_table == md[__table__[related]]
    IN  IF name \in DOMAIN md
        THEN [err |-> NoError, metadata |-> md, secondary |-> name]
        ELSE IF __table__[e] = "" \/ __table__[related] = ""
        THEN [err |-> Error("AttributeError", e, "",
                            "'NoneType' object has no attribute 'columns'"),
              metadata |-> md, secondary |-> ""]
        ELSE IF PrimaryKeyColumns(current_table) = <<>>
                 \/ PrimaryKeyColumns(related_table) = <<>>
        THEN [err |-> Error("ValueError", e, "",
                            "Both entities must have primary keys defined"),
              metadata |-> md, secondary |-> ""]
        ELSE [err |-> NoError,
              metadata |-> md @@
                  (name :> [name |-> name,
                            columns |-> AssociationColumns(current_table, related_table),
                            indexes |-> <<>>]),
              secondary |-> name]

NotConfiguredMsg(e, navname, related) ==
    "Cannot create relationship '" \o navname \o "' on " \o e
        \o ". The related entity " \o related \o " is not configured in the builder."

NoForeignKeyColumnMsg(fk_prop, fk_owner, fk_table) ==
    "The foreign key column '" \o fk_prop \o "' does not exist on " \o fk_owner
        \o ". Available columns: "
        \o Join(", ", [i \in 1..Len(fk_table.columns) |-> fk_table.columns[i].name])

IsConfiguredIfEntity(related) == related \in Entities

\* related_entity in self._builder._entity_configs
IsConfigured(related) == related \in Registered

ForeignKeyColumnAssumed(fk_prop, fk_table) == TRUE

\* rel_config._fk_prop in fk_table.columns
ForeignKeyColumnExists(fk_prop, fk_table) == fk_prop \in ColumnNames(fk_table)

\* _validate_relationship, after the related entity is known
_validate_relationship(e, rel, md) ==
    LET related == rel._related_entity
        fk_owner == IF rel._relationship_type = "otm" THEN related ELSE e
    IN  IF ~IsConfigured(related)
        THEN Error("ValueError", e, rel._navigation_name,
                   NotConfiguredMsg(e, rel._navigation_name, related))
        ELSE IF rel._relationship_type # "mtm" /\ rel._fk_prop # ""
        THEN IF fk_owner \notin Entities \/ __table__[fk_owner] = ""
             THEN Error("ValueError", e, rel._navigation_name, "has no table configured")
             ELSE IF ~ForeignKeyColumnExists(rel._fk_prop, md[__table__[fk_owner]])
             THEN Error("ValueError", e, rel._navigation_name,
                        NoForeignKeyColumnMsg(rel._fk_prop, fk_owner, md[__table__[fk_owner]]))
             ELSE NoError
        ELSE NoError

\* the names getattr finds on a mapped entity class: its columns and the
\* relationship descriptors set on it
HasAttribute(cls, name, md, at) ==
    /\ cls \in Entities
    /\ \/ name \in DOMAIN at[cls]
       \/ __table__[cls] # "" /\ name \in ColumnNames(md[__table__[cls]])

\* _apply: the exception, the registry after the call and the descriptor set
_apply(e, rel, md, at) ==
    LET assoc == _create_association_table(e, rel._related_entity, md)
        plain == [argument |-> rel._related_entity, secondary |-> "",
                  back_populates |-> rel._back_populates, foreign_keys |-> <<>>]
    IN  IF rel._relationship_type = "mtm"
        THEN [err |-> assoc.err, metadata |-> assoc.metadata,
              descriptor |-> [plain EXCEPT !.secondary = assoc.secondary]]
        ELSE IF rel._fk_prop # "" /\ rel._related_entity # ""
                 /\ HasAttribute(rel._related_entity, rel._fk_prop, md, at)
        THEN [err |-> NoError, metadata |-> md,
              descriptor |-> [plain EXCEPT
                                 !.foreign_keys = <<rel._related_entity, rel._fk_prop>>]]
        ELSE [err |-> NoError, metadata |-> md, descriptor |-> plain]

ApplyThenValidate(e, i, rel, st) ==
    LET rels == [st.rels EXCEPT ![i] = rel]
        invalid == _validate_relationship(e, rel, st.metadata)
        made == _apply(e, rel, st.metadata, st.attrs)
    IN  IF rel._related_entity \notin Entities
        THEN [st EXCEPT !.err = invalid, !.rels = rels]
        ELSE IF made.err # NoError
        THEN [st EXCEPT !.err = made.err, !.rels = rels, !.metadata = made.metadata]
        ELSE [err |-> invalid, rels |-> rels, metadata |-> made.metadata,
              attrs |-> [st.attrs EXCEPT ![e] =
                            (rel._navigation_name :> made.descriptor) @@ @],
              applied |-> i]

\* the body of the loop of _create_relationships on rel, the i-th relationship
\* with its related entity known: _validate_relationship, then _apply
ValidateThenApply(e, i, rel, st) ==
    LET rels == [st.rels EXCEPT ![i] = rel]
        invalid == _validate_relationship(e, rel, st.metadata)
        made == _apply(e, rel, st.metadata, st.attrs)
    IN  IF invalid # NoError THEN [st EXCEPT !.err = invalid, !.rels = rels]
        ELSE IF made.err # NoError
        THEN [st EXCEPT !.err = made.err, !.rels = rels, !.metadata = made.metadata]
        ELSE [err |-> NoError, rels |-> rels, metadata |-> made.metadata,
              attrs |-> [st.attrs EXCEPT ![e] =
                            (rel._navigation_name :> made.descriptor) @@ @],
              applied |-> i]

\* the loop of _create_relationships from the i-th relationship on; st holds the
\* exception, the relationships (with the related entity memoized), the schema
\* registry and the descriptors set on the class so far
RECURSIVE RelationshipLoop(_, _, _)
RelationshipLoop(e, i, st) ==
    IF i > Len(st.rels) THEN st
    ELSE LET found == IF st.rels[i]._related_entity # ""
                      THEN [err |-> NoError, related |-> st.rels[i]._related_entity]
                      ELSE _determine_related_entity(e, st.rels[i]._navigation_name)
             rel == [st.rels[i] EXCEPT !._related_entity = found.related]
             r == ValidateThenApply(e, i, rel, st)
         IN  IF found.err # NoError THEN [st EXCEPT !.err = found.err]
             ELSE IF r.err # NoError THEN r
             ELSE RelationshipLoop(e, i + 1, r)

_create_relationships(e) ==
    RelationshipLoop(e, 1, [err |-> NoError, rels |-> _relationships[e],
                            metadata |-> metadata, attrs |-> attrs, applied |-> 0])

(***************************************************************************)
(* The relationship and index calls of setup().                            *)
(***************************************************************************)
TotalRels(rels) == SumLen(rels, Entities)

TotalIndexes(idx) == SumLen(idx, Entities)

\* builder.entity(e).has_one(nav) and builder.entity(e).has_many(nav)
AddRelationship(e, navname, type) ==
    /\ pc = "setup"
    /\ TotalRels(_relationships) < MaxRels
    /\ LET b == entity(e)
       IN  /\ SetBuilder(b)
           /\ _pks' = b._pks
           /\ _properties' = b._properties
           /\ _indexes' = b._indexes
           /\ _relationships' = [b._relationships EXCEPT ![e] =
                                    Append(@, RelationshipConfiguration(navname, type))]
    /\ Continue
    /\ UNCHANGED classVars

HasOne(e, navname) == AddRelationship(e, navname, "mto")

HasMany(e, navname) == AddRelationship(e, navname, "otm")

NoNavigation == ""

InverseNavs == {"posts", "tags"}

WithManyMsg == "with_many() can only be called on one-to-many relationships"

with_many_accepts_not_many_to_many(rel) == rel._relationship_type # "mtm"

\* with_many accepts the call on a one-to-many relationship alone
with_many_accepts(rel) == rel._relationship_type = "otm"

\* with_many on the i-th relationship of e: the exception and the relationship
\* as the call leaves it
with_many(e, rel, navigation) ==
    LET promoted == [rel EXCEPT !._relationship_type = "mtm"]
        found == IF rel._related_entity # ""
                 THEN [err |-> NoError, related |-> rel._related_entity]
                 ELSE _determine_related_entity(e, rel._navigation_name)
        resolved == [promoted EXCEPT !._related_entity = found.related]
    IN  IF ~with_many_accepts(rel)
        THEN [err |-> Error("ValueError", e, rel._navigation_name, WithManyMsg),
              rel |-> rel]
        ELSE IF navigation = NoNavigation THEN [err |-> NoError, rel |-> promoted]
        ELSE IF found.err # NoError THEN [err |-> found.err, rel |-> promoted]
        ELSE IF navigation \notin AnnotatedNames(found.related)
                 \/ startswith_underscore(navigation)
        THEN [err |-> Error("AttributeError", found.related, navigation,
                            "Property does not exist on entity"),
              rel |-> resolved]
        ELSE [err |-> NoError,
              rel |-> [resolved EXCEPT !._inverse_prop = navigation,
                                       !._back_populates = navigation]]

WithMany(e, i, navigation) ==
    /\ pc = "setup"
    /\ e \in Registered
    /\ i \in 1..Len(_relationships[e])
    /\ LET r == with_many(e, _relationships[e][i], navigation)
       IN  /\ _relationships' = [_relationships EXCEPT ![e][i] = r.rel]
           /\ IF r.err # NoError THEN Abort(r.err) ELSE Continue
    /\ UNCHANGED <<builderVars, sessionVars, _pks, _properties, _indexes, classVars>>

WithForeignKeyMsg == "with_foreign_key() is not applicable for many-to-many relationships"

with_foreign_key_rejects_nothing(rel) == FALSE

\* the first check of with_foreign_key
with_foreign_key_rejects(rel) == rel._relationship_type = "mtm"

\* with_foreign_key on a relationship of e: the exception and the relationship
\* as the call leaves it; the related entity is looked up anew
with_foreign_key(e, rel, navigation) ==
    LET found == _determine_related_entity(e, rel._navigation_name)
        resolved == [rel EXCEPT !._related_entity = found.related]
        fk_owner == IF rel._relationship_type = "otm" THEN found.related ELSE e
    IN  IF with_foreign_key_rejects(rel)
        THEN [err |-> Error("ValueError", e, rel._navigation_name, WithForeignKeyMsg),
              rel |-> rel]
        ELSE IF found.err # NoError
        THEN [err |-> found.err,
              rel |-> IF rel._navigation_name \in FieldNames(e) THEN resolved ELSE rel]
        ELSE IF navigation \notin AnnotatedNames(fk_owner)
                 \/ startswith_underscore(navigation)
        THEN [err |-> Error("AttributeError", fk_owner, navigation,
                            "Property does not exist on entity"),
              rel |-> resolved]
        ELSE [err |-> NoError, rel |-> [resolved EXCEPT !._fk_prop = navigation]]

\* the fields a foreign-key lambda names
ForeignKeyNavs == {"id", "tags", "posts"}

WithForeignKey(e, i, navigation) ==
    /\ pc = "setup"
    /\ e \in Registered
    /\ i \in 1..Len(_relationships[e])
    /\ LET r == with_foreign_key(e, _relationships[e][i], navigation)
       IN  /\ _relationships' = [_relationships EXCEPT ![e][i] = r.rel]
           /\ IF r.err # NoError THEN Abort(r.err) ELSE Continue
    /\ UNCHANGED <<builderVars, sessionVars, _pks, _properties, _indexes, classVars>>

IndexNavs(e) == UNION {[1..n -> Navigable(e)] : n \in 0..MaxIndexColumns}

IndexNames == {"", "ix_custom"}

NoIndexFieldMsg == "Must specify at least one field to index"

has_index_rejects_nothing(navigations) == FALSE

\* the check of has_index
has_index_rejects(navigations) == Len(navigations) = 0

\* the field lists of has_index in the specification of indexes: up to
\* MaxIndexFields distinct fields, in every order
IndexFields(e) ==
    {navs \in UNION {[1..n -> Navigable(e)] : n \in 0..MaxIndexFields} :
        \A i, j \in 1..Len(navs) : i # j => navs[i] # navs[j]}

\* builder.entity(e).has_index(*navigations, unique=..., name=...)
HasIndex(e, navigations, unique, name) ==
    /\ pc = "setup"
    /\ LET b == entity(e)
       IN  /\ SetBuilder(b)
           /\ _pks' = b._pks
           /\ _properties' = b._properties
           /\ _relationships' = b._relationships
           /\ IF has_index_rejects(navigations)
              THEN /\ Abort(Error("ValueError", e, "", NoIndexFieldMsg))
                   /\ _indexes' = b._indexes
              ELSE /\ TotalIndexes(_indexes) < MaxIndexes
                   /\ Continue
                   /\ _indexes' = [b._indexes EXCEPT ![e] =
                                      Append(@, IndexConfiguration(navigations, unique, name))]
    /\ UNCHANGED classVars

(***************************************************************************)
(* DbBuilder._finalize: three loops over self._entity_configs.values().    *)
(***************************************************************************)
Phases == <<"tables", "indexes", "relationships">>

PhaseIndex(phase) == CHOOSE k \in 1..Len(Phases) : Phases[k] = phase

\* a variant that takes each entity through the three phases in turn
NextPositionPipelined(phase, i) ==
    IF PhaseIndex(phase) < Len(Phases)
    THEN [pc |-> Phases[PhaseIndex(phase) + 1], cursor |-> i]
    ELSE IF i < Len(entity_configs) THEN [pc |-> Phases[1], cursor |-> i + 1]
    ELSE [pc |-> "done", cursor |-> 0]

\* where _finalize goes after the call for the i-th configuration in a phase
NextPosition(phase, i) ==
    IF i < Len(entity_configs) THEN [pc |-> phase, cursor |-> i + 1]
    ELSE IF PhaseIndex(phase) < Len(Phases)
    THEN [pc |-> Phases[PhaseIndex(phase) + 1], cursor |-> 1]
    ELSE [pc |-> "done", cursor |-> 0]

\* the call returned: go on; it raised: _finalize ends with the exception
Proceed(phase, e, error) ==
    /\ log' = Append(log, <<phase, e>>)
    /\ err' = error
    /\ IF error = NoError
       THEN /\ pc' = NextPosition(phase, cursor).pc
            /\ cursor' = NextPosition(phase, cursor).cursor
       ELSE /\ pc' = "failed"
            /\ cursor' = cursor

configVars == <<_pks, _properties, _relationships, _indexes>>

\* builder._finalize() is called
Finalize ==
    /\ pc = "setup"
    /\ IF entity_configs = <<>>
       THEN pc' = "done" /\ cursor' = 0
       ELSE pc' = "tables" /\ cursor' = 1
    /\ UNCHANGED <<builderVars, sessionVars, configVars, classVars, log, err>>

\* config._create_table(self._metadata)
CreateTable ==
    /\ pc = "tables"
    /\ LET e == entity_configs[cursor]
           r == _create_table(e)
       IN  /\ IF r.table = NoTable
              THEN UNCHANGED <<__table__, metadata>>
              ELSE /\ __table__' = [__table__ EXCEPT ![e] = r.table.name]
                   /\ metadata' = (r.table.name :> r.table) @@ metadata
           /\ __mapper__' = IF r.mapped THEN [__mapper__ EXCEPT ![e] = context]
                            ELSE __mapper__
           /\ Proceed("tables", e, r.err)
    /\ UNCHANGED <<builderVars, sessionVars, configVars, attrs, applied>>

\* config._create_indexes()
CreateIndexes ==
    /\ pc = "indexes"
    /\ LET e == entity_configs[cursor]
           r == _create_indexes(e)
       IN  /\ IF r.table = NoTable
              THEN UNCHANGED metadata
              ELSE metadata' = [metadata EXCEPT ![r.table.name] = r.table]
           /\ Proceed("indexes", e, r.err)
    /\ UNCHANGED <<builderVars, sessionVars, configVars, __table__, __mapper__, attrs, applied>>

\* config._create_relationships()
CreateRelationships ==
    /\ pc = "relationships"
    /\ LET e == entity_configs[cursor]
           r == _create_relationships(e)
       IN  /\ _relationships' = [_relationships EXCEPT ![e] = r.rels]
           /\ metadata' = r.metadata
           /\ attrs' = r.attrs
           /\ applied' = [applied EXCEPT ![e] = r.applied]
           /\ Proceed("relationships", e, r.err)
    /\ UNCHANGED <<builderVars, sessionVars, _pks, _properties, _indexes, __table__, __mapper__>>

\* a further context instance is constructed: _init_dbsets makes a new MetaData
\* and a new DbBuilder; what earlier contexts set on the classes stays
NewContext ==
    /\ pc \in {"done", "failed", "aborted"}
    /\ context < MaxContexts
    /\ context' = context + 1
    /\ entity_configs' = <<>>
    /\ config_id' = [e \in Entities |-> 0]
    /\ configs_created' = configs_created
    /\ _pks' = [e \in Entities |-> <<>>]
    /\ _properties' = [e \in Entities |-> <<>>]
    /\ _relationships' = [e \in Entities |-> <<>>]
    /\ _indexes' = [e \in Entities |-> <<>>]
    /\ metadata' = <<>>
    /\ applied' = [e \in Entities |-> 0]
    /\ pc' = "setup"
    /\ cursor' = 0
    /\ log' = <<>>
    /\ err' = NoError
    /\ UNCHANGED <<__table__, __mapper__, attrs, sessionVars>>

(***************************************************************************)
(* The session of a context and its with-block.  The session is the        *)
(* relational engine's: its operations are modelled by what they do to the *)
(* instances given to it and to the rows of the database.                  *)
(***************************************************************************)
\* every instance is a Post; the instances 2k-1 and 2k are constructed with
\* the same primary key value
ClassOf(n) == "Post"

KeyOf(n) == (n + 1) \div 2

Session == [state |-> state, transaction |-> transaction, database |-> database]

\* Session.new
Pending(s) == {n \in Instances : s.state[n] = "pending"}

\* the INSERTs of a flush go through when no two rows get the same primary key
FlushSucceeds(s) ==
    \A n \in Pending(s) :
        \A m \in (Pending(s) \cup s.transaction \cup s.database) \ {n} :
            KeyOf(m) # KeyOf(n)

\* Session.add(entity)
add(s, n) ==
    [s EXCEPT !.state[n] = CASE s.state[n] = "transient" -> "pending"
                             [] s.state[n] = "detached" -> "persistent"
                             [] OTHER -> s.state[n]]

\* Session.flush(), its INSERTs going through
flush(s) ==
    [s EXCEPT !.state = [n \in Instances |->
                            IF s.state[n] = "pending" THEN "persistent" ELSE s.state[n]],
              !.transaction = s.transaction \cup Pending(s)]

\* Session.commit()
commit(s) ==
    [s EXCEPT !.database = s.database \cup s.transaction, !.transaction = {}]

\* Session.rollback(): the rows the transaction inserted are gone, and the
\* instances that were added in it are expunged
rollback(s) ==
    [s EXCEPT !.state = [n \in Instances |->
                            IF s.state[n] = "pending" \/ n \in s.transaction
                            THEN "transient"
                            ELSE s.state[n]],
              !.transaction = {}]

\* Session.close(): what is left of a transaction is rolled back, every
\* instance is expunged
close(s) ==
    LET r == rollback(s)
    IN  [r EXCEPT !.state = [n \in Instances |->
                                IF r.state[n] = "persistent" THEN "detached"
                                ELSE r.state[n]]]

\* len(session.dirty) + len(session.new) + len(session.deleted): the instances
\* of the model are added, never modified or removed
TrackedChanges(s) == Cardinality(Pending(s))

\* DbContext.save_changes(): the session it leaves, the exception it raises
\* and the count it returns, taken between the flush and the commit
save_changes(s) ==
    IF FlushSucceeds(s)
    THEN [s |-> commit(flush(s)), raised |-> "", count |-> TrackedChanges(flush(s)),
          closed |-> FALSE]
    ELSE [s |-> rollback(s), raised |-> "Exception", count |-> 0, closed |-> FALSE]

__exit__saving_always(s, exc) ==
    LET r == save_changes(s)
    IN  IF r.raised = ""
        THEN [s |-> close(r.s), raised |-> exc, count |-> 0, closed |-> TRUE]
        ELSE r

\* DbContext.__exit__(exc_type, ...): it returns None, so that the exception
\* of the block propagates; the close() is not reached when save_changes raises
__exit__(s, exc) ==
    IF exc = ""
    THEN LET r == save_changes(s)
         IN  IF r.raised = ""
             THEN [s |-> close(r.s), raised |-> "", count |-> 0, closed |-> TRUE]
             ELSE r
    ELSE [s |-> close(rollback(s)), raised |-> exc, count |-> 0, closed |-> TRUE]

SetSession(s, c) ==
    /\ _session' = TRUE
    /\ closed' = c
    /\ single_result' = NoResult
    /\ state' = s.state
    /\ transaction' = s.transaction
    /\ database' = s.database

buildVars ==
    <<entity_configs, config_id, configs_created, context, configVars, classVars, runVars>>

\* the with-block is left, by its end (exc = "") or by the exception exc
Leave(exc) ==
    LET r == __exit__(Session, exc)
    IN  /\ SetSession(r.s, r.closed)
        /\ block' = "out"
        /\ exc_type' = exc
        /\ raised' = r.raised
        /\ change_count' = <<>>
        /\ UNCHANGED <<added, buildVars>>

\* with context as ctx: the construction of the context has succeeded
Enter ==
    /\ pc = "done"
    /\ block = "out"
    /\ block' = "in"
    /\ added' = {}
    /\ exc_type' = ""
    /\ raised' = ""
    /\ change_count' = <<>>
    /\ single_result' = NoResult
    /\ UNCHANGED <<_session, closed, state, transaction, database, buildVars>>

\* ctx.<dbset>.add(entity) in the block, on the session the context creates at
\* its first use; the session refuses an instance of a class that has no mapper
Add(n) ==
    /\ block = "in"
    /\ IF has__mapper__(ClassOf(n))
       THEN /\ SetSession(add(Session, n), FALSE)
            /\ added' = IF state[n] = "transient" THEN added \cup {n} ELSE added
            /\ change_count' = <<>>
            /\ UNCHANGED <<block, exc_type, raised, buildVars>>
       ELSE Leave("UnmappedInstanceError")

\* ctx.save_changes() in the block; its exception leaves the block
SaveChanges ==
    /\ block = "in"
    /\ LET r == save_changes(Session)
       IN  IF r.raised = ""
           THEN /\ SetSession(r.s, FALSE)
                /\ change_count' = <<r.count>>
                /\ UNCHANGED <<block, added, exc_type, raised, buildVars>>
           ELSE LET x == __exit__(r.s, r.raised)
                IN  /\ SetSession(x.s, x.closed)
                    /\ block' = "out"
                    /\ exc_type' = r.raised
                    /\ raised' = x.raised
                    /\ change_count' = <<>>
                    /\ UNCHANGED <<added, buildVars>>

\* ctx.<dbset>.to_list() in the block: the query flushes the session first
ToList ==
    /\ block = "in"
    /\ IF FlushSucceeds(Session)
       THEN /\ SetSession(flush(Session), FALSE)
            /\ change_count' = <<>>
            /\ UNCHANGED <<block, added, exc_type, raised, buildVars>>
       ELSE Leave("IntegrityError")

\* the rows a query with the filter id == k yields on the flushed session
\* (k = 0: a query without filter)
Results(s, k) == {n \in s.database \cup s.transaction : k = 0 \/ KeyOf(n) = k}

\* QueryBuilder.single() on the results of to_list(): the exception it raises,
\* or the row it returns
single(results) ==
    LET len == Cardinality(results)
    IN  IF len = 0
        THEN [count |-> len, raised |-> "ValueError",
              msg |-> "Statement didn't return any results", row |-> 0]
        ELSE IF len > 0
        THEN [count |-> len, raised |-> "ValueError",
              msg |-> "Expected one result, found " \o ToString(len), row |-> 0]
        ELSE [count |-> len, raised |-> "", msg |-> "",
              row |-> CHOOSE n \in results : TRUE]

\* ctx.<dbset>.where(lambda p: p.id == k).single() in the block: the query
\* flushes the session first; the exception of single() leaves the block
Single(k) ==
    /\ block = "in"
    /\ IF ~FlushSucceeds(Session)
       THEN Leave("IntegrityError")
       ELSE LET s == flush(Session)
                r == single(Results(s, k))
                x == __exit__(s, r.raised)
            IN  /\ single_result' = r
                /\ _session' = TRUE
                /\ change_count' = <<>>
                /\ IF r.raised = ""
                   THEN /\ closed' = FALSE
                        /\ state' = s.state
                        /\ transaction' = s.transaction
                        /\ database' = s.database
                        /\ UNCHANGED <<block, added, exc_type, raised, buildVars>>
                   ELSE /\ closed' = x.closed
                        /\ state' = x.s.state
                        /\ transaction' = x.s.transaction
                        /\ database' = x.s.database
                        /\ block' = "out"
                        /\ exc_type' = r.raised
                        /\ raised' = x.raised
                        /\ UNCHANGED <<added, buildVars>>

\* the end of the block is reached
LeaveBlock ==
    /\ block = "in"
    /\ Leave("")

\* the code of the block raises
RaiseInBlock ==
    /\ block = "in"
    /\ Leave("ValueError")

(***************************************************************************)
(* Specifications.  Spec: the key and property calls of setup() and        *)
(* _finalize.  SpecRel: the key and relationship calls and _finalize.      *)
(* SpecPhases: the key, index and relationship calls and _finalize.        *)
(***************************************************************************)
EntityCall == \E e \in BlogEntities : Entity(e)

HasKeyCall == \E e \in BlogEntities : \E navs \in KeyNavs(e), autoinc \in BOOLEAN :
                  HasKey(e, navs, autoinc)

RequiredCall == \E e \in BlogEntities : \E f \in Navigable(e) : Required(e, f)

AutoincrementCall == \E e \in BlogEntities : \E f \in Navigable(e) : Autoincrement(e, f)

MaxLenCall == \E e \in BlogEntities : \E f \in Navigable(e) : MaxLen(e, f)

HasOneCall == \E e \in BlogEntities : \E f \in Navigable(e) : HasOne(e, f)

HasManyCall == \E e \in BlogEntities : \E f \in Navigable(e) : HasMany(e, f)

WithManyCall == \E e \in BlogEntities, i \in 1..MaxRels, nav \in {NoNavigation} \cup InverseNavs :
                    WithMany(e, i, nav)

HasIndexCall == \E e \in BlogEntities : \E navs \in IndexNavs(e), unique \in BOOLEAN,
                   name \in IndexNames : HasIndex(e, navs, unique, name)

FinalizeStep == Finalize \/ CreateTable \/ CreateIndexes \/ CreateRelationships

Next ==
    \/ EntityCall
    \/ HasKeyCall
    \/ RequiredCall
    \/ AutoincrementCall
    \/ MaxLenCall
    \/ Finalize
    \/ CreateTable
    \/ CreateIndexes
    \/ CreateRelationships

Spec == Init /\ [][Next]_vars

NextRel ==
    \/ EntityCall
    \/ HasKeyCall
    \/ HasManyCall
    \/ WithManyCall
    \/ Finalize
    \/ CreateTable
    \/ CreateIndexes
    \/ CreateRelationships

SpecRel == Init /\ [][NextRel]_vars

NextPhases ==
    \/ EntityCall
    \/ HasKeyCall
    \/ HasIndexCall
    \/ HasManyCall
    \/ Finalize
    \/ CreateTable
    \/ CreateIndexes
    \/ CreateRelationships

SpecPhases == Init /\ [][NextPhases]_vars

\* SpecNav: the relationship calls on classes keyed by id
IdKeyCall == \E e \in BlogEntities : HasKey(e, <<"id">>, FALSE)

WithForeignKeyCall == \E e \in BlogEntities, i \in 1..MaxRels, nav \in ForeignKeyNavs :
                          WithForeignKey(e, i, nav)

NextNav ==
    \/ IdKeyCall
    \/ HasOneCall
    \/ HasManyCall
    \/ WithManyCall
    \/ WithForeignKeyCall
    \/ Finalize
    \/ CreateTable
    \/ CreateIndexes
    \/ CreateRelationships

SpecNav == Init /\ [][NextNav]_vars

\* SpecIndex: the index calls on classes keyed by id
FieldsIndexCall == \E e \in BlogEntities : \E navs \in IndexFields(e), unique \in BOOLEAN,
                       name \in IndexNames : HasIndex(e, navs, unique, name)

NextIndex ==
    \/ IdKeyCall
    \/ FieldsIndexCall
    \/ Finalize
    \/ CreateTable
    \/ CreateIndexes
    \/ CreateRelationships

SpecIndex == Init /\ [][NextIndex]_vars

\* SpecAgain: contexts constructed one after another over the same classes
PlainKeyCall == \E e \in BlogEntities : \E navs \in KeyNavs(e) : HasKey(e, navs, FALSE)

NextAgain ==
    \/ EntityCall
    \/ PlainKeyCall
    \/ NewContext
    \/ Finalize
    \/ CreateTable
    \/ CreateIndexes
    \/ CreateRelationships

SpecAgain == Init /\ [][NextAgain]_vars

\* SpecForum: a one-to-many relationship, its many-to-one inverse and their
\* foreign keys, on classes keyed by id
ForumKeyCall == \E e \in ForumEntities : HasKey(e, <<"id">>, FALSE)

UserHasManyCall == HasMany("User", "comments")

CommentHasOneCall == HasOne("Comment", "user")

ForumForeignKeyNavs == {"user_id", "id"}

ForumForeignKeyCall == \E e \in ForumEntities, i \in 1..MaxRels, nav \in ForumForeignKeyNavs :
                           WithForeignKey(e, i, nav)

NextForum ==
    \/ ForumKeyCall
    \/ UserHasManyCall
    \/ CommentHasOneCall
    \/ ForumForeignKeyCall
    \/ Finalize
    \/ CreateTable
    \/ CreateIndexes
    \/ CreateRelationships

SpecForum == Init /\ [][NextForum]_vars

\* SpecLink: a many-to-many relationship in a context with a class whose table
\* has the name of the association table
LinkKeyCall == \E e \in LinkEntities : HasKeyWithin(e, <<"id">>, FALSE, MaxLinkPks)

TagsHasManyCall == HasMany("Post", "tags")

PostsHasManyCall == HasMany("Tag", "posts")

NextLink ==
    \/ LinkKeyCall
    \/ TagsHasManyCall
    \/ PostsHasManyCall
    \/ WithManyCall
    \/ Finalize
    \/ CreateTable
    \/ CreateIndexes
    \/ CreateRelationships

SpecLink == Init /\ [][NextLink]_vars

\* SpecSession: a context over the Post class, then its with-blocks
PostCall == Entity("Post")

PostKeyCall == HasKey("Post", <<"id">>, FALSE)

AddCall == \E n \in Instances : Add(n)

SingleCall == \E k \in 0..MaxInstances : Single(k)

NextSession ==
    \/ PostCall
    \/ PostKeyCall
    \/ Finalize
    \/ CreateTable
    \/ CreateIndexes
    \/ CreateRelationships
    \/ Enter
    \/ AddCall
    \/ SaveChanges
    \/ ToList
    \/ SingleCall
    \/ LeaveBlock
    \/ RaiseInBlock

SpecSession == Init /\ [][NextSession]_vars

\* SpecUnion: the key and property calls on the classes that declare unions
UnionEntityCall == \E e \in UnionEntities : Entity(e)

UnionHasKeyCall == \E e \in UnionEntities : \E navs \in KeyNavs(e) : HasKey(e, navs, FALSE)

UnionMaxLenCall == \E e \in UnionEntities : \E f \in Navigable(e) : MaxLen(e, f)

NextUnion ==
    \/ UnionEntityCall
    \/ UnionHasKeyCall
    \/ UnionMaxLenCall
    \/ Finalize
    \/ CreateTable
    \/ CreateIndexes
    \/ CreateRelationships

SpecUnion == Init /\ [][NextUnion]_vars

(***************************************************************************)
(* Properties.                                                             *)
(***************************************************************************)
Logged(phase, e) == \E i \in 1..Len(log) : log[i] = <<phase, e>>

LoggedBefore(phase, e, i) == \E j \in 1..(i - 1) : log[j] = <<phase, e>>

TableOf(e) == metadata[__table__[e]]

HasTable(e) == __table__[e] # ""

IsPrefix(s, t) == Len(s) <= Len(t) /\ \A i \in 1..Len(s) : s[i] = t[i]

\* C1: in _finalize every registered entity's table is created before any
\* entity's indexes are created, and every entity's indexes are created before
\* any relationship of any entity is validated or applied.
C1_PhaseBarrier ==
    /\ \A i \in 1..Len(log) :
          /\ log[i][1] = "indexes" =>
                \A e \in Registered : LoggedBefore("tables", e, i)
          /\ log[i][1] = "relationships" =>
                \A e \in Registered : LoggedBefore("indexes", e, i)
    /\ (\E e \in Entities : HasTable(e) /\ TableOf(e).indexes # <<>>) =>
          \A e \in Registered : HasTable(e)
    /\ (\E e \in Entities : attrs[e] # <<>>) =>
          \A e \in Registered : HasTable(e) /\ Logged("indexes", e)

\* two entities registered, _finalize done, an index created on a table and a
\* relationship descriptor set on a class
C1_Witness ==
    /\ pc = "done"
    /\ Len(entity_configs) = 2
    /\ \E e \in Registered : TableOf(e).indexes # <<>>
    /\ \E e \in Entities : attrs[e] # <<>>

\* C2: entity(T) is lookup-or-create: no call replaces the configuration stored
\* for a registered type or drops what was recorded on it, and the builder holds
\* one configuration instance per registered type.
C2_EntityIsLookupOrCreate ==
    [][/\ \A T \in Registered :
             /\ T \in Range(entity_configs')
             /\ config_id'[T] = config_id[T]
             /\ IsPrefix(_pks[T], _pks'[T])
             /\ \A f \in DOMAIN _properties[T] :
                    /\ f \in DOMAIN _properties'[T]
                    /\ _properties[T][f]._autoincrement => _properties'[T][f]._autoincrement
             /\ Len(_relationships[T]) <= Len(_relationships'[T])
             /\ \A i \in 1..Len(_relationships[T]) :
                    _relationships'[T][i]._navigation_name
                        = _relationships[T][i]._navigation_name
             /\ IsPrefix(_indexes[T], _indexes'[T])
       /\ configs_created' = Len(entity_configs')
       /\ \A T \in Range(entity_configs') : config_id'[T] \in 1..configs_created'
       /\ \A T, U \in Range(entity_configs') : config_id'[T] = config_id'[U] => T = U
      ]_vars

\* a type configured through three separate entity(T) calls: a key, a
\* relationship and an index are all recorded on its one configuration
C2_Witness ==
    \E T \in Registered :
        /\ _pks[T] # <<>>
        /\ _relationships[T] # <<>>
        /\ _indexes[T] # <<>>
        /\ config_id[T] = 1
        /\ Len(entity_configs) = 2

\* C4: table synthesis of an entity with no primary key raises a ValueError
\* before any column is emitted, and the entity has no table afterward.
C4_NoKeyNoTable ==
    \A e \in Entities :
        _pks[e] = <<>> =>
            /\ ~HasTable(e)
            /\ __tablename__[e] \notin DOMAIN metadata
            /\ __mapper__[e] = 0
            /\ pc = "done" => e \notin Registered
            /\ Logged("tables", e) =>
                  /\ pc = "failed"
                  /\ err.kind = "ValueError"
                  /\ err.entity = e
                  /\ err.msg = NoPrimaryKeyMsg

\* _finalize failed on an entity without a key on which a property is marked
\* autoincrement though its field is no optional integer: the missing key is
\* reported, no column was looked at
C4_Witness ==
    /\ pc = "failed"
    /\ \E e \in Registered :
          /\ _pks[e] = <<>>
          /\ Logged("tables", e)
          /\ err.entity = e
          /\ \E f \in DOMAIN _properties[e] : _properties[e][f]._autoincrement

DeclaredOptional(t) == t.origin = "union" /\ NoneType \in Range(t.args)

MarkedRequired(e, f) == f \in DOMAIN _properties[e] /\ _properties[e][f]._required

\* C5: a column of a field declared Optional[T] that is neither a primary key
\* nor marked required() is nullable; a column of a field whose declared type is
\* not Optional is not nullable.
C5_Nullable ==
    \A e \in Entities :
        HasTable(e) =>
            \A i \in 1..Len(TableOf(e).columns) :
                LET c == TableOf(e).columns[i]
                    t == FieldType(e, c.name)
                IN  /\ (DeclaredOptional(t) /\ c.name \notin Range(_pks[e])
                            /\ ~MarkedRequired(e, c.name)) => c.nullable
                    /\ ~DeclaredOptional(t) => ~c.nullable

\* both tables exist: Post.title, optional and neither key nor required, is
\* nullable; Tag.id, not optional, is not
C5_Witness ==
    /\ HasTable("Post") /\ HasTable("Tag")
    /\ \E i \in 1..Len(TableOf("Post").columns) :
          TableOf("Post").columns[i].name = "title" /\ TableOf("Post").columns[i].nullable
    /\ \E i \in 1..Len(TableOf("Tag").columns) :
          TableOf("Tag").columns[i].name = "id" /\ ~TableOf("Tag").columns[i].nullable

NewlyAutoincrement(e) ==
    \E f \in DOMAIN _properties'[e] :
        /\ _properties'[e][f]._autoincrement
        /\ ~(f \in DOMAIN _properties[e] /\ _properties[e][f]._autoincrement)

\* C8: has_key with more than one navigation and autoincrement=True raises the
\* ValueError at the call, before table synthesis, and leaves the primary-key
\* list and every autoincrement flag as they were; no call records several key
\* fields and marks one autoincrement.
C8_CompositeAutoincrementRejected ==
    [][/\ (err'.msg = AutoincrementCompositeMsg /\ err.msg # AutoincrementCompositeMsg) =>
             /\ pc = "setup" /\ pc' = "aborted"
             /\ err'.kind = "ValueError"
             /\ _pks' = _pks
             /\ _properties' = _properties
             /\ log' = <<>>
             /\ \A e \in Entities : ~HasTable(e)'
       /\ \A e \in Entities :
             Len(_pks'[e]) >= Len(_pks[e]) + 2 => ~NewlyAutoincrement(e)
      ]_vars

\* the call was refused on an entity that already had a key
C8_Witness ==
    /\ pc = "aborted"
    /\ err.msg = AutoincrementCompositeMsg
    /\ \E e \in Entities : err.entity = e /\ _pks[e] # <<>>

PrimaryKeyNames(table) ==
    {table.columns[i].name : i \in {j \in 1..Len(table.columns) : table.columns[j].primary_key}}

IsCollection(t) == t.origin \in {"list", "dict", "set"}

\* C3, as claimed: after _finalize succeeds the table of every entity has a
\* primary-key column for exactly each field named in has_key.
C3_Original ==
    pc = "done" =>
        \A e \in Registered :
            /\ PrimaryKeyNames(TableOf(e)) = Range(_pks[e])
            /\ PrimaryKeyNames(TableOf(e)) # {}

\* C3, amended: the primary-key columns of an entity's table are exactly the
\* fields named in has_key that yield a column (a collection-typed field yields
\* none); there is one at least when a named field is no collection.
C3_KeyColumns ==
    \A e \in Entities :
        HasTable(e) =>
            LET named == {f \in Range(_pks[e]) : ~IsCollection(FieldType(e, f))}
            IN  /\ PrimaryKeyNames(TableOf(e)) = named
                /\ named # {} => PrimaryKeyColumns(TableOf(e)) # <<>>
                /\ \A i \in 1..Len(TableOf(e).columns) :
                       TableOf(e).columns[i].primary_key
                           <=> TableOf(e).columns[i].name \in Range(_pks[e])

\* _finalize succeeded on an entity with a composite key: both fields are
\* primary-key columns
C3_Witness ==
    /\ pc = "done"
    /\ \E e \in Registered :
          /\ Cardinality(Range(_pks[e])) = 2
          /\ PrimaryKeyNames(TableOf(e)) = Range(_pks[e])

Position(e, f) ==
    CHOOSE j \in 1..Len(__annotations__[e]) : __annotations__[e][j][1] = f

OptionalInt(t) ==
    t.origin = "union" /\ NoneType \in Range(t.args) /\ "int" \in Range(t.args)

MarkedAutoincrement(e, f) ==
    f \in DOMAIN _properties[e] /\ _properties[e][f]._autoincrement

\* a check of _create_table that runs before the checks of field f raised
EarlierCheckRaised(e, f) ==
    \/ err.msg = NoPrimaryKeyMsg
    \/ err.field \in FieldNames(e) /\ Position(e, err.field) < Position(e, f)

\* C9, as claimed: a field marked autoincrement whose declared type is no
\* optional integer makes table synthesis raise a TypeError identifying the
\* field, and no table is attached.
C9_Original ==
    \A e \in Entities :
        Logged("tables", e) =>
            \A f \in FieldNames(e) :
                (MarkedAutoincrement(e, f) /\ ~OptionalInt(FieldType(e, f))) =>
                    /\ pc = "failed"
                    /\ err.kind = "TypeError" /\ err.entity = e /\ err.field = f
                    /\ ~HasTable(e)

\* C9, amended: for a field that yields a column, table synthesis raises and
\* attaches no table; the exception is the TypeError identifying the field
\* unless a check that runs earlier raised (the missing primary key, a check of
\* an earlier field, the max_len check of the same field).
C9_AutoincrementNeedsOptionalInt ==
    \A e \in Entities :
        Logged("tables", e) =>
            \A f \in FieldNames(e) :
                (MarkedAutoincrement(e, f) /\ ~OptionalInt(FieldType(e, f))
                    /\ ~IsCollection(FieldType(e, f))) =>
                    /\ pc = "failed"
                    /\ err.entity = e
                    /\ ~HasTable(e)
                    /\ __tablename__[e] \notin DOMAIN metadata
                    /\ \/ err.kind = "TypeError" /\ err.field = f
                       \/ EarlierCheckRaised(e, f)
                       \/ err.kind = "ValueError" /\ err.field = f
                              /\ err.msg = MaxLenMsg \o NonNullType(FieldType(e, f))

\* table synthesis of a keyed entity raised the TypeError for a field marked
\* autoincrement
C9_Witness ==
    /\ pc = "failed"
    /\ err.kind = "TypeError"
    /\ err.msg = AutoincrementTypeMsg
    /\ \E e \in Registered :
          /\ err.entity = e
          /\ _pks[e] # <<>>
          /\ MarkedAutoincrement(e, err.field)
          /\ ~HasTable(e)

DeclaredText(t) ==
    \/ t.origin = "none" /\ t.name = "str"
    \/ t.origin = "union" /\ SelectSeq(t.args, LAMBDA a : a # NoneType) = <<"str">>

\* the name of the declared type without None
ActualType(t) ==
    IF t.origin = "union" THEN SelectSeq(t.args, LAMBDA a : a # NoneType)[1]
    ELSE IF t.origin = "none" THEN t.name
    ELSE t.origin

MarkedMaxLen(e, f) ==
    f \in DOMAIN _properties[e] /\ _properties[e][f]._max_length # <<>>

\* C10, as claimed: a field marked max_len(n) whose declared type is not text
\* makes table synthesis raise a ValueError naming the field and its type before
\* the table is completed; max_len has no effect before table synthesis.
C10_Original ==
    /\ pc = "setup" => err = NoError /\ \A e \in Entities : ~HasTable(e)
    /\ \A e \in Entities :
          Logged("tables", e) =>
              \A f \in FieldNames(e) :
                  (MarkedMaxLen(e, f) /\ ~DeclaredText(FieldType(e, f))) =>
                      /\ pc = "failed"
                      /\ err.kind = "ValueError" /\ err.entity = e /\ err.field = f
                      /\ err.msg = MaxLenMsg \o ActualType(FieldType(e, f))
                      /\ ~HasTable(e)

\* C10, amended: for a field that yields a column, table synthesis raises and
\* attaches no table; the exception is the ValueError naming the field and its
\* type unless a check that runs earlier raised (the missing primary key, a
\* check of an earlier field, the union check of the same field).
C10_MaxLenNeedsText ==
    /\ pc = "setup" => err = NoError /\ \A e \in Entities : ~HasTable(e)
    /\ \A e \in Entities :
          Logged("tables", e) =>
              \A f \in FieldNames(e) :
                  (MarkedMaxLen(e, f) /\ ~DeclaredText(FieldType(e, f))
                      /\ ~IsCollection(FieldType(e, f))) =>
                      /\ pc = "failed"
                      /\ err.entity = e
                      /\ ~HasTable(e)
                      /\ __tablename__[e] \notin DOMAIN metadata
                      /\ \/ /\ err.kind = "ValueError" /\ err.field = f
                            /\ err.msg = MaxLenMsg \o ActualType(FieldType(e, f))
                         \/ EarlierCheckRaised(e, f)
                         \/ err.kind = "TypeError" /\ err.field = f
                                /\ err.msg = UnionMsg(FieldType(e, f))

\* table synthesis of a keyed entity raised the ValueError for a field marked
\* max_len
C10_Witness ==
    /\ pc = "failed"
    /\ err.kind = "ValueError"
    /\ \E e \in Registered :
          /\ err.entity = e
          /\ _pks[e] # <<>>
          /\ MarkedMaxLen(e, err.field)
          /\ err.msg = MaxLenMsg \o "int"
          /\ ~HasTable(e)

\* the tables of the schema registry that are no entity's table
AssociationTables == DOMAIN metadata \ {__tablename__[e] : e \in Registered}

ManyToMany(e) ==
    {i \in 1..Len(_relationships[e]) : _relationships[e][i]._relationship_type = "mtm"}

Linked == \E e \in Registered : ManyToMany(e) # {}

\* no later relationship of e is declared on the navigation of its i-th
LastDeclared(e, i) ==
    \A k \in (i + 1)..Len(_relationships[e]) :
        _relationships[e][k]._navigation_name # _relationships[e][i]._navigation_name

C6_AfterFinalize ==
    pc = "done" =>
        /\ Linked => AssociationTables = {"posts_tags"}
        /\ ~Linked => AssociationTables = {}
        /\ \A e \in Registered : \A i \in ManyToMany(e) :
               LastDeclared(e, i) =>
                   attrs[e][_relationships[e][i]._navigation_name].secondary = "posts_tags"

C6_Reused ==
    \A n \in AssociationTables : n \in DOMAIN metadata' /\ metadata'[n] = metadata[n]

\* C6: after _finalize, entities Post and Tag linked by has_many().with_many(),
\* on one side or both and in either registration order, share exactly one
\* association table, named posts_tags; once created it is reused unchanged.
C6_OneAssociationTable == [](C6_AfterFinalize) /\ [][C6_Reused]_vars

\* a bidirectional declaration, Tag registered first, finalized
C6_Witness ==
    /\ pc = "done"
    /\ entity_configs = <<"Tag", "Post">>
    /\ ManyToMany("Post") # {} /\ ManyToMany("Tag") # {}
    /\ AssociationTables = {"posts_tags"}
    /\ attrs["Post"]["tags"].secondary = attrs["Tag"]["posts"].secondary

\* the first primary-key column of a table
FirstPrimaryKey(table) ==
    table.columns[CHOOSE j \in 1..Len(table.columns) :
                      /\ table.columns[j].primary_key
                      /\ \A k \in 1..(j - 1) : ~table.columns[k].primary_key]

\* the entities whose table names make up the name of association table n
Sides(n) ==
    {e \in Entities : \E r \in Entities :
        n \in {__tablename__[e] \o "_" \o __tablename__[r],
               __tablename__[r] \o "_" \o __tablename__[e]}}

\* C7: an association table has two columns, one per side, named
\* {table}_{pk column}, typed like and referencing a primary-key column of that
\* side (its first), and both are primary keys.
C7_AssociationColumns ==
    \A n \in AssociationTables :
        LET t == metadata[n]
        IN  /\ Len(t.columns) = 2
            /\ t.columns[1].name # t.columns[2].name
            /\ \A i \in 1..2 : t.columns[i].primary_key /\ t.columns[i].fk # ""
            /\ \A e \in Sides(n) :
                   /\ HasTable(e)
                   /\ LET pk == FirstPrimaryKey(TableOf(e))
                      IN  \E i \in 1..2 :
                              /\ t.columns[i].name = __tablename__[e] \o "_" \o pk.name
                              /\ t.columns[i].type = pk.type
                              /\ t.columns[i].fk = __tablename__[e] \o "." \o pk.name

\* the association table of posts and tags, both keyed by id
C7_Witness ==
    /\ pc = "done"
    /\ "posts_tags" \in DOMAIN metadata
    /\ {metadata["posts_tags"].columns[i].name : i \in 1..2} = {"posts_id", "tags_id"}
    /\ \A i \in 1..2 : metadata["posts_tags"].columns[i].type = "Integer"

\* a declared union that is not of the form T | None
UnsupportedUnion(t) ==
    /\ t.origin = "union"
    /\ \/ NoneType \notin Range(t.args)
       \/ Cardinality({i \in 1..Len(t.args) : t.args[i] # NoneType}) >= 2

UnionFields(e) == {f \in FieldNames(e) : UnsupportedUnion(FieldType(e, f))}

\* C11: a class with a field declared as a union other than T | None gets no
\* table: table synthesis raises, and when it reaches the field (the entity has
\* a key and no earlier field raised) the exception is a TypeError naming the
\* field and its type; a class that got a table declares no such union.
C11_UnionOnlyOptional ==
    \A e \in Entities :
        /\ HasTable(e) => UnionFields(e) = {}
        /\ Logged("tables", e) =>
              \A f \in UnionFields(e) :
                  /\ pc = "failed"
                  /\ err.entity = e
                  /\ ~HasTable(e)
                  /\ __tablename__[e] \notin DOMAIN metadata
                  /\ ~EarlierCheckRaised(e, f) =>
                         /\ err.kind = "TypeError"
                         /\ err.field = f
                         /\ err.msg = "has unsupported union type: "
                                          \o (IF e = "Reading" THEN "int | str"
                                              ELSE "int | str | None")

\* after the table of Post, whose unions are T | None, was made, table
\* synthesis of the keyed class Sample raised the TypeError for int | str | None
C11_Witness ==
    /\ pc = "failed"
    /\ err.kind = "TypeError"
    /\ err.entity = "Sample"
    /\ err.field = "value"
    /\ _pks["Sample"] # <<>>
    /\ Logged("tables", "Post") /\ HasTable("Post")
    /\ ~HasTable("Sample")

\* the fields of a class that are collections or carry the prefix "_"
NeverStored(e) ==
    {f \in FieldNames(e) : IsCollection(FieldType(e, f)) \/ f = "_rev"}

Configured(e, f) ==
    \/ f \in Range(_pks[e])
    \/ f \in DOMAIN _properties[e]
    \/ \E i \in 1..Len(_indexes[e]) : f \in Range(_indexes[e][i]._columns)

\* C12: no table in the schema registry has a column for a collection-typed
\* field or for a field whose name starts with "_", whatever key, property or
\* index configuration names the field.
C12_NeverStored ==
    \A e \in Entities :
        __tablename__[e] \in DOMAIN metadata =>
            \A i \in 1..Len(metadata[__tablename__[e]].columns) :
                metadata[__tablename__[e]].columns[i].name \notin NeverStored(e)

\* _finalize succeeded for a class of which a collection field is configured
C12_Witness ==
    /\ pc = "done"
    /\ \E e \in Registered :
          /\ HasTable(e)
          /\ \E f \in NeverStored(e) : Configured(e, f)
          /\ Len(TableOf(e).columns) < Len(__annotations__[e])

\* the relationships present before and after a step
Kept(e) == 1..(IF Len(_relationships[e]) < Len(_relationships'[e])
               THEN Len(_relationships[e]) ELSE Len(_relationships'[e]))

WithManyRaised == err.msg # WithManyMsg /\ err'.msg = WithManyMsg

C13_Step ==
    /\ \A e \in Entities : \A i \in Kept(e) :
          LET before == _relationships[e][i]
              after == _relationships'[e][i]
          IN  /\ after._relationship_type # before._relationship_type =>
                     before._relationship_type = "otm" /\ after._relationship_type = "mtm"
              /\ before._relationship_type # "otm" =>
                     /\ after._relationship_type = before._relationship_type
                     /\ after._inverse_prop = before._inverse_prop
                     /\ after._back_populates = before._back_populates
    /\ WithManyRaised =>
          /\ err'.kind = "ValueError"
          /\ pc' = "aborted"
          /\ _relationships' = _relationships
          /\ \E i \in 1..Len(_relationships[err'.entity]) :
                /\ _relationships[err'.entity][i]._navigation_name = err'.field
                /\ _relationships[err'.entity][i]._relationship_type \in {"mto", "mtm"}

\* C13: a step changes the kind of a relationship only from one-to-many to
\* many-to-many; a relationship of another kind keeps its kind, inverse and
\* back-populates fields, and with_many on it raises a ValueError that leaves
\* all relationships as they were.
C13_WithManyOnlyOnOneToMany == [][C13_Step]_vars

\* with_many raised on a many-to-one relationship
C13_Witness ==
    /\ pc = "aborted"
    /\ err.kind = "ValueError"
    /\ err.msg = WithManyMsg
    /\ \E e \in Registered : \E i \in 1..Len(_relationships[e]) :
          /\ err.entity = e
          /\ _relationships[e][i]._navigation_name = err.field
          /\ _relationships[e][i]._relationship_type = "mto"
    /\ \A e \in Registered : \A i \in 1..Len(_relationships[e]) :
          _relationships[e][i]._navigation_name = err.field =>
              _relationships[e][i]._relationship_type = "mto"

WithForeignKeyRaised == err.msg # WithForeignKeyMsg /\ err'.msg = WithForeignKeyMsg

C14_Step ==
    /\ \A e \in Entities : \A i \in Kept(e) :
          _relationships[e][i]._relationship_type = "mtm" =>
              _relationships'[e][i]._fk_prop = _relationships[e][i]._fk_prop
    /\ WithForeignKeyRaised =>
          /\ err'.kind = "ValueError"
          /\ pc = "setup" /\ pc' = "aborted"
          /\ _relationships' = _relationships
          /\ \E i \in 1..Len(_relationships[err'.entity]) :
                /\ _relationships[err'.entity][i]._navigation_name = err'.field
                /\ _relationships[err'.entity][i]._relationship_type = "mtm"

\* C14: no step records a foreign-key field on a many-to-many relationship;
\* with_foreign_key on one raises a ValueError at the call, during setup, and
\* leaves all relationships as they were.
C14_NoForeignKeyOnManyToMany == [][C14_Step]_vars

\* with_foreign_key raised on a many-to-many relationship without foreign key
C14_Witness ==
    /\ pc = "aborted"
    /\ err.kind = "ValueError"
    /\ err.msg = WithForeignKeyMsg
    /\ \A e \in Registered : \A i \in 1..Len(_relationships[e]) :
          /\ _relationships[e][i]._relationship_type = "mtm"
          /\ _relationships[e][i]._fk_prop = ""
    /\ \E e \in Registered : _relationships[e] # <<>>

\* the type a navigation field declares: the argument of list[T], else the type
DeclaredRelated(e, f) ==
    LET t == FieldType(e, f)
    IN  IF t.args # <<>> THEN t.args[1] ELSE t.name

Least(S) == CHOOSE i \in S : \A j \in S : i <= j

\* the relationships of e whose related entity is not registered
Unconfigured(e) ==
    {i \in 1..Len(_relationships[e]) :
        DeclaredRelated(e, _relationships[e][i]._navigation_name) \notin Registered}

\* the i-th relationship of e was never applied: _apply returned for fewer
\* relationships, and the descriptor of its navigation, if any, is an earlier one's
NotApplied(e, i) ==
    /\ applied[e] < i
    /\ LET nav == _relationships[e][i]._navigation_name
       IN  nav \in DOMAIN attrs[e] =>
               \E j \in 1..applied[e] : _relationships[e][j]._navigation_name = nav

\* C15: once _create_relationships ran for a class with a relationship whose
\* related entity is not registered, _finalize has failed and that relationship
\* is not applied; when validation reached it (all relationships before it were
\* applied) the exception is a ValueError naming the class and the related entity.
C15_RelatedMustBeConfigured ==
    \A e \in Entities :
        (Logged("relationships", e) /\ Unconfigured(e) # {}) =>
            LET i == Least(Unconfigured(e))
                nav == _relationships[e][i]._navigation_name
            IN  /\ pc = "failed"
                /\ err.entity = e
                /\ \A k \in Unconfigured(e) : NotApplied(e, k)
                /\ applied[e] = i - 1 =>
                       /\ err.kind = "ValueError"
                       /\ err.field = nav
                       /\ err.msg = "Cannot create relationship '" \o nav \o "' on " \o e
                                       \o ". The related entity " \o DeclaredRelated(e, nav)
                                       \o " is not configured in the builder."

\* Post alone is registered and keyed, and its relationship to Tag was refused
C15_Witness ==
    /\ pc = "failed"
    /\ Registered = {"Post"}
    /\ HasTable("Post")
    /\ err.kind = "ValueError"
    /\ err.entity = "Post"
    /\ err.field = "tags"
    /\ Unconfigured("Post") # {}
    /\ attrs["Post"] = <<>>

\* the entity that owns the foreign key of a relationship of e
ForeignKeyOwner(e, rel) ==
    IF rel._relationship_type = "otm" THEN DeclaredRelated(e, rel._navigation_name) ELSE e

\* the relationships of e, not many-to-many, with an explicit foreign key that is
\* no column of the owning entity's table
MissingForeignKey(e) ==
    {i \in 1..Len(_relationships[e]) :
        LET rel == _relationships[e][i]
            owner == ForeignKeyOwner(e, rel)
        IN  /\ rel._relationship_type \in {"otm", "mto"}
            /\ rel._fk_prop # ""
            /\ owner \in Entities
            /\ HasTable(owner)
            /\ \A c \in 1..Len(TableOf(owner).columns) :
                   TableOf(owner).columns[c].name # rel._fk_prop}

\* the column names of the tables of SpecNav, as the message lists them
AvailableColumns(owner) == IF owner = "Post" THEN "id, title" ELSE "id"

\* C16: once _create_relationships ran for a class with a one-to-many or
\* many-to-one relationship whose explicit foreign key is no column of the
\* owning entity's table, _finalize has failed and that relationship is not
\* applied; when validation reached the foreign-key check of it (all
\* relationships before it were applied and its related entity is registered)
\* the exception is a ValueError listing the available columns.
C16_ForeignKeyColumnMustExist ==
    \A e \in Entities :
        (Logged("relationships", e) /\ MissingForeignKey(e) # {}) =>
            LET i == Least(MissingForeignKey(e))
                rel == _relationships[e][i]
                owner == ForeignKeyOwner(e, rel)
            IN  /\ pc = "failed"
                /\ err.entity = e
                /\ \A k \in MissingForeignKey(e) : NotApplied(e, k)
                /\ (applied[e] = i - 1 /\ i \notin Unconfigured(e)) =>
                       /\ err.kind = "ValueError"
                       /\ err.field = rel._navigation_name
                       /\ err.msg = "The foreign key column '" \o rel._fk_prop
                                       \o "' does not exist on " \o owner
                                       \o ". Available columns: " \o AvailableColumns(owner)

\* the foreign key of a one-to-many relationship of Tag names the collection
\* field tags of Post, and validation refused it
C16_Witness ==
    /\ pc = "failed"
    /\ Registered = {"Post", "Tag"}
    /\ err.kind = "ValueError"
    /\ err.entity = "Tag"
    /\ err.field = "posts"
    /\ \E i \in MissingForeignKey("Tag") :
          /\ _relationships["Tag"][i]._relationship_type = "otm"
          /\ _relationships["Tag"][i]._fk_prop = "tags"
          /\ applied["Tag"] = i - 1
    /\ attrs["Tag"] = <<>>

\* the name an index gets when none is given, for up to three fields
ExpectedIndexName(cfg, table_name) ==
    LET prefix == IF cfg._unique THEN "uq" ELSE "ix"
        c == cfg._columns
    IN  CASE Len(c) = 1 -> prefix \o "_" \o table_name \o "_" \o c[1]
          [] Len(c) = 2 -> prefix \o "_" \o table_name \o "_" \o c[1] \o "_" \o c[2]
          [] Len(c) = 3 -> prefix \o "_" \o table_name \o "_" \o c[1] \o "_" \o c[2]
                               \o "_" \o c[3]

\* C17: the k-th index on the table of a class is that of its k-th has_index
\* call: the name given, or else uq/ix, the table name and the fields in the
\* order passed, joined by underscores; exactly those fields; the uniqueness
\* flag asked for. Once _create_indexes returned for the class, the table has
\* one index per call.
C17_IndexNaming ==
    \A e \in Entities :
        HasTable(e) =>
            /\ Len(TableOf(e).indexes) <= Len(_indexes[e])
            /\ (Logged("indexes", e) /\ err.entity # e) =>
                   Len(TableOf(e).indexes) = Len(_indexes[e])
            /\ \A k \in 1..Len(TableOf(e).indexes) :
                   LET idx == TableOf(e).indexes[k]
                       cfg == _indexes[e][k]
                   IN  /\ idx.columns = cfg._columns
                       /\ idx.unique = cfg._unique
                       /\ idx.name = IF cfg._name # "" THEN cfg._name
                                     ELSE ExpectedIndexName(cfg, __tablename__[e])

\* a unique index on title and id of Post, in that order, without a name given
C17_Witness ==
    /\ pc = "done"
    /\ HasTable("Post")
    /\ \E k \in 1..Len(TableOf("Post").indexes) :
          /\ TableOf("Post").indexes[k].name = "uq_posts_title_id"
          /\ TableOf("Post").indexes[k].columns = <<"title", "id">>
          /\ TableOf("Post").indexes[k].unique

C18_Recorded ==
    \A e \in Entities : \A k \in 1..Len(_indexes[e]) : _indexes[e][k]._columns # <<>>

C18_Step ==
    (err.msg # NoIndexFieldMsg /\ err'.msg = NoIndexFieldMsg) =>
        /\ err'.kind = "ValueError"
        /\ pc = "setup" /\ pc' = "aborted"
        /\ _indexes' = _indexes
        /\ metadata' = metadata

\* C18: has_index without a field raises a ValueError at the call, during
\* setup; the call records no index configuration and creates no index, and no
\* recorded index configuration is without fields.
C18_IndexNeedsField == [](C18_Recorded) /\ [][C18_Step]_vars

\* has_index() raised on a keyed class
C18_Witness ==
    /\ pc = "aborted"
    /\ err.kind = "ValueError"
    /\ err.msg = NoIndexFieldMsg
    /\ err.entity \in Registered
    /\ _pks[err.entity] # <<>>
    /\ _indexes[err.entity] = <<>>
    /\ metadata = <<>>

\* the step is the _create_table call of a class that has a mapper already
C19_Again(e) ==
    /\ pc = "tables"
    /\ log' = Append(log, <<"tables", e>>)
    /\ __mapper__[e] # 0

C19_Step ==
    \A e \in Entities :
        /\ __mapper__[e] # 0 => __mapper__'[e] = __mapper__[e]
        /\ C19_Again(e) =>
              /\ err'.kind # "ArgumentError"
              /\ __tablename__[e] \in DOMAIN metadata' =>
                    /\ err' = NoError
                    /\ pc' # "failed"
                    /\ __table__'[e] = __tablename__[e]

\* C19: when _create_table runs for a class that has a mapper already,
\* registration is skipped and raises nothing: the call succeeds whenever the
\* table was built. The class keeps the one mapping it had, made by the context
\* that mapped it first; no step ever replaces or adds a mapping.
C19_MappedOnce ==
    [](\A e \in Entities : __mapper__[e] \in 0..context) /\ [][C19_Step]_vars

\* the second context finished _finalize over a class the first context mapped
C19_Witness ==
    /\ context = 2
    /\ pc = "done"
    /\ \E e \in Registered :
          /\ __mapper__[e] = 1
          /\ Logged("tables", e)
          /\ __tablename__[e] \in DOMAIN metadata

\* the step leaves the with-block
C20_Leaves == block = "in" /\ block' = "out"

\* what the session holds uncommitted: nothing once the block is left
C20_Settled ==
    block = "out" => transaction = {} /\ Pending(Session) = {}

\* C20 as stated: the block left without an exception, every entity added in it
\* is persisted; left with one, none is
C20_Original ==
    [][C20_Leaves =>
          IF exc_type' = ""
          THEN added \subseteq database'
          ELSE added \cap database' = {}]_vars

C20_Step ==
    /\ database \subseteq database'
    /\ C20_Leaves =>
          IF exc_type' = ""
          THEN IF FlushSucceeds(Session)
               THEN /\ raised' = ""
                    /\ added \subseteq database'
                    /\ database' = database \cup transaction \cup Pending(Session)
               ELSE /\ raised' = "Exception"
                    /\ database' = database
          ELSE /\ raised' = exc_type'
               /\ database' = database
               /\ (added \ database) \cap database' = {}

\* C20: leaving the with-block without an exception calls save_changes: when its
\* flush goes through, the entities added in the block are committed, and what is
\* committed stays so for every later block; when the flush fails, save_changes
\* rolls back and raises, and nothing is committed. Leaving the block with an
\* exception rolls the session back: the entities added in the block that no
\* save_changes in the block had committed are not persisted. Either way the
\* session holds nothing uncommitted afterwards.
C20_ExitSavesOrRollsBack == [](C20_Settled) /\ [][C20_Step]_vars

\* a first block persisted an instance by its end; a later block added another
\* one and was left by the exception its code raised, without persisting it
C20_Witness ==
    /\ block = "out"
    /\ exc_type = "ValueError"
    /\ raised = "ValueError"
    /\ 1 \in database
    /\ added = {3}
    /\ 3 \notin database
    /\ state[3] = "transient"

\* C21: a save_changes() call that succeeds returns the number of tracked
\* changes that were pending in the session when it was called and that it
\* persisted.
C21_ReturnsChangeCount ==
    [][change_count' # <<>> =>
          change_count'[1] = Cardinality(Pending(Session))]_vars

\* C22: a column is nullable if and only if its field is declared Optional, is
\* not in the primary-key list and is not marked required(); a field declared
\* Optional and named in has_key has a column that is not nullable.
C22_NullableIff ==
    \A e \in Entities :
        HasTable(e) =>
            \A i \in 1..Len(TableOf(e).columns) :
                LET c == TableOf(e).columns[i]
                    t == FieldType(e, c.name)
                IN  c.nullable <=> /\ DeclaredOptional(t)
                                   /\ c.name \notin Range(_pks[e])
                                   /\ ~MarkedRequired(e, c.name)

\* the declared type is an entity class, or Optional of one
DeclaredEntity(t) ==
    \/ t.origin = "none" /\ t.name \in Entities
    \/ /\ t.origin = "union"
       /\ NoneType \in Range(t.args)
       /\ \E k \in 1..Len(t.args) : t.args[k] \in Entities

\* the fields of e that has_one configured as a many-to-one navigation
HasOneNavigations(e) ==
    {_relationships[e][i]._navigation_name : i \in
        {j \in 1..Len(_relationships[e]) : _relationships[e][j]._relationship_type = "mto"}}

\* C23: a many-to-one navigation field whose declared type is another entity, or
\* Optional of one, configured with has_one, has no column in the table of the
\* entity that declares it.
C23_NavigationSkipped ==
    \A e \in Entities :
        HasTable(e) =>
            \A f \in HasOneNavigations(e) :
                DeclaredEntity(FieldType(e, f)) => f \notin ColumnNames(TableOf(e))

\* the applied relationships of e, one-to-many or many-to-one, that carry an
\* explicit foreign key and whose descriptor is the one their navigation holds
AppliedWithForeignKey(e) ==
    {i \in 1..applied[e] :
        /\ _relationships[e][i]._relationship_type \in {"otm", "mto"}
        /\ _relationships[e][i]._fk_prop # ""
        /\ LastDeclared(e, i)}

\* C24: for a one-to-many or many-to-one relationship with an explicit foreign
\* key, the one owning entity, the related entity for one-to-many and the
\* declaring entity for many-to-one, declares the foreign-key field, has it as a
\* column of its table, and is the entity whose column the applied relationship
\* takes as its foreign key.
C24_OneForeignKeyOwner ==
    \A e \in Registered : \A i \in AppliedWithForeignKey(e) :
        LET rel == _relationships[e][i]
            owner == ForeignKeyOwner(e, rel)
        IN  /\ rel._fk_prop \in FieldNames(owner)
            /\ rel._fk_prop \in ColumnNames(TableOf(owner))
            /\ attrs[e][rel._navigation_name].foreign_keys = <<owner, rel._fk_prop>>

\* _finalize ended in its third loop by the exception of a validation: the
\* exceptions of _validate_relationship name the navigation, those of _apply
\* do not
ValidationFailed ==
    /\ pc = "failed"
    /\ log # <<>>
    /\ log[Len(log)][1] = "relationships"
    /\ err.kind = "ValueError"
    /\ err.field # ""

C26_NoForeignKeyOnManyToMany ==
    \A e \in Entities : \A i \in 1..Len(_relationships[e]) :
        _relationships[e][i]._relationship_type = "mtm" => _relationships[e][i]._fk_prop = ""

\* C27: after has_key and autoincrement() calls that did not raise, a class with
\* a primary-key field marked autoincrement has exactly one primary-key field.
C27_AutoincrementKeyIsSingle ==
    pc # "aborted" =>
        \A e \in Entities :
            (\E f \in Range(_pks[e]) : MarkedAutoincrement(e, f)) =>
                Cardinality(Range(_pks[e])) = 1

\* the secondary tables of the relationship descriptors set on the classes
Secondaries ==
    UNION {{attrs[e][n].secondary : n \in DOMAIN attrs[e]} : e \in Entities} \ {""}

\* C28: the secondary table of a many-to-many relationship is no entity's own
\* table, and a table is secondary to two relationships only when they link the
\* same pair of entities.
C28_SecondaryIsAssociation ==
    /\ \A e \in Entities : HasTable(e) => __table__[e] \notin Secondaries
    /\ \A e, r \in Entities : \A n \in DOMAIN attrs[e], k \in DOMAIN attrs[r] :
           (attrs[e][n].secondary # "" /\ attrs[e][n].secondary = attrs[r][k].secondary) =>
               {e, attrs[e][n].argument} = {r, attrs[r][k].argument}

\* C29: however the with-block was left, by its end, by an exception raised in
\* it or by the failure of the save_changes of its end, the session is closed
\* once the block is left.
C29_ClosedOutside == block = "out" => closed

\* C30: single() returns the row when the query yields exactly one result, and
\* raises a ValueError when it yields none or more than one.
C30_SingleResult ==
    single_result # NoResult =>
        IF single_result.count = 1
        THEN single_result.raised = "" /\ single_result.row \in Instances
        ELSE single_result.raised = "ValueError"

====
